---------------------------- MODULE Spec2Model ----------------------------
(***************************************************************************)
(* A model of the AQI pipeline scripts:                                    *)
(*   pipelines/feature_pipeline.py   hourly collector  (collection         *)
(*                                   "features")                           *)
(*   pipelines/backfill_data.py      30-day backfill   (collection         *)
(*                                   "pollution_data")                     *)
(*   pipelines/training_pipeline.py  model tournament  (file aqi_model.pkl *)
(*                                   and collection "model_registry")      *)
(*   app/main.py                     dashboard: load_model, weather fetch, *)
(*                                   prediction block, calculate_aqi       *)
(* Every script is a single-threaded batch run; one action is one run.     *)
(***************************************************************************)
EXTENDS Integers, Sequences, FiniteSets, TLC

(***************************************************************************)
(* Bounds of the model.                                                    *)
(***************************************************************************)
MaxHour == 1
MaxBatch == 2
MaxIngestRuns == 4

Hours == 0..MaxHour
\* minutes past the hour at which a collector run may start
Minutes == {0, 30}
\* pm2_5 readings delivered by the upstream APIs
Pm25Values == {1, 2}

\* Python's None (a find_one without a match, a field not yet set)
NoDoc == [none |-> TRUE]

VARIABLES
    features,        \* db["features"]: documents in natural (insertion) order
    pollution_data,  \* db["pollution_data"]: documents in natural order
    ingest_runs,     \* number of ingestion runs started so far
    last_call,       \* history: the most recent ingestion call and its argument
    first_loaded,    \* history: per hour, the first doc passed to load_data
    last_upserted,   \* history: per hour, the last record passed to the bulk upsert
    rewrites,        \* history: per collection, whether a call brought other
                     \* values for an hour key that had been written before
    model_registry,  \* db["model_registry"]: documents in natural order
    aqi_model_pkl,   \* content of the file aqi_model.pkl
    clock,           \* datetime.utcnow() of the trainer, in training runs
    train_outcome,   \* how the last run of training_pipeline.main ended
    X_train,         \* train_and_evaluate: the rows of X_train, last split
    X_test,          \* train_and_evaluate: the rows of X_test, last split
    dash_outcome,    \* how the last run of the dashboard script ended
    dash_error,      \* the exception that ended it, if one did
    dash_seen,       \* history: len(model_registry) when load_model ran
    model,           \* app/main.py: model, as load_model returned it
    model_name,      \* app/main.py: model_name
    forecast_df,     \* app/main.py: the weather rows of forecast_df
    X_future_cols,   \* app/main.py: the columns of X_future
    Predicted_PM25,  \* app/main.py: forecast_df["Predicted_PM25"]
    Predicted_AQI,   \* app/main.py: forecast_df["Predicted_AQI"]
    pm25_arg,        \* argument of a calculate_aqi call, in tenths
    aqi_ret,         \* what that call returned
    pc,              \* per concurrent collector process: the statement it is at
    proc_doc,        \* per process: doc, as main built it
    existing         \* per process: existing, as load_data's find_one returned it

ingest_vars == <<features, pollution_data, ingest_runs, last_call,
                 first_loaded, last_upserted, rewrites>>
train_vars == <<model_registry, aqi_model_pkl, clock, train_outcome,
                X_train, X_test>>
dash_vars == <<dash_outcome, dash_error, dash_seen, model, model_name,
               forecast_df, X_future_cols, Predicted_PM25, Predicted_AQI>>
aqi_vars == <<pm25_arg, aqi_ret>>
race_vars == <<pc, proc_doc, existing>>
vars == <<ingest_vars, train_vars, dash_vars, aqi_vars, race_vars>>

---------------------------------------------------------------------------
(***************************************************************************)
(* The document store: the pymongo calls the scripts make.                 *)
(***************************************************************************)

\* Indices of the documents of coll whose field key equals val.
Matching(coll, key, val) ==
    {i \in 1..Len(coll) : key \in DOMAIN coll[i] /\ coll[i][key] = val}

Min(S) == CHOOSE x \in S : \A y \in S : x <= y

\* collection.find_one({key: val}): the first match in natural order, or None.
find_one(coll, key, val) ==
    IF Matching(coll, key, val) = {} THEN NoDoc
    ELSE coll[Min(Matching(coll, key, val))]

\* collection.insert_one(doc)
insert_one(coll, doc) == Append(coll, doc)

\* {"$set": record} applied to doc: fields of record replace or extend doc's.
SetFields(doc, record) ==
    [k \in DOMAIN doc \cup DOMAIN record |->
        IF k \in DOMAIN record THEN record[k] ELSE doc[k]]

\* pymongo.UpdateOne({key: record[key]}, {"$set": record}, upsert=True):
\* the first matching document is updated; without a match one is inserted.
UpdateOneUpsert(coll, key, record) ==
    IF Matching(coll, key, record[key]) = {}
    THEN Append(coll, record)
    ELSE [coll EXCEPT ![Min(Matching(coll, key, record[key]))] =
              SetFields(@, record)]

\* collection.bulk_write(operations): ordered, one UpdateOne after another.
RECURSIVE bulk_write(_, _)
bulk_write(coll, records) ==
    IF records = <<>> THEN coll
    ELSE bulk_write(UpdateOneUpsert(coll, "timestamp", Head(records)),
                    Tail(records))

---------------------------------------------------------------------------
(***************************************************************************)
(* feature_pipeline.py                                                     *)
(***************************************************************************)

\* ts.replace(minute=0, second=0, microsecond=0)
TruncateToHour(ts) == [ts EXCEPT !.minute = 0]

\* transform_data(raw, ts): the document built from one API answer.  The
\* other measurements (temp, humidity, pm10, ...) travel like pm2_5.
transform_data(pm2_5, ts) ==
    [timestamp      |-> ts,
     timestamp_hour |-> TruncateToHour(ts),
     pm2_5          |-> pm2_5]

\* load_data without the look-up of the hour
LoadDataAlwaysInsert(doc, collection) == insert_one(collection, doc)

\* load_data as an upsert keyed by the hour
LoadDataUpsert(doc, collection) ==
    UpdateOneUpsert(collection, "timestamp_hour", doc)

\* load_data(doc, collection): insert unless a document of that hour exists.
load_data(doc, collection) ==
    IF find_one(collection, "timestamp_hour", doc.timestamp_hour) # NoDoc
    THEN collection
    ELSE insert_one(collection, doc)

\* One run of feature_pipeline.main with a successful fetch.
FeatureRun ==
    /\ ingest_runs < MaxIngestRuns
    /\ \E h \in Hours, m \in Minutes, v \in Pm25Values :
        LET doc == transform_data(v, [hour |-> h, minute |-> m]) IN
        /\ features' = load_data(doc, features)
        /\ last_call' = [op |-> "load_data", arg |-> doc]
        /\ first_loaded' =
              IF first_loaded[h] = NoDoc
              THEN [first_loaded EXCEPT ![h] = doc]
              ELSE first_loaded
        /\ rewrites' =
              IF first_loaded[h] # NoDoc /\ first_loaded[h] # doc
              THEN [rewrites EXCEPT !.features = TRUE]
              ELSE rewrites
    /\ ingest_runs' = ingest_runs + 1
    /\ UNCHANGED <<pollution_data, last_upserted>>
    /\ UNCHANGED <<train_vars, dash_vars, aqi_vars, race_vars>>

\* One run of feature_pipeline.main whose fetch_data raises (raise_for_status
\* or a timeout): the run ends before load_data.
FeatureRunFetchFails ==
    /\ ingest_runs < MaxIngestRuns
    /\ ingest_runs' = ingest_runs + 1
    /\ last_call' = [op |-> "fetch_failed", arg |-> NoDoc]
    /\ UNCHANGED <<features, pollution_data, first_loaded, last_upserted,
                   rewrites>>
    /\ UNCHANGED <<train_vars, dash_vars, aqi_vars, race_vars>>

---------------------------------------------------------------------------
(***************************************************************************)
(* feature_pipeline.py run by two processes at once.  Each process is one  *)
(* invocation of main; the store serves one call at a time, and nothing    *)
(* orders the calls of one process against those of the other.  (The       *)
(* script creates no unique index on timestamp_hour.)  The history         *)
(* variables of the sequential runs are left alone here.                   *)
(***************************************************************************)
Procs == {1, 2}

\* main: fetch_data and transform_data, up to the call of load_data.
LoadFetch(p) ==
    /\ pc[p] = "main"
    /\ \E h \in Hours, m \in Minutes, v \in Pm25Values :
          proc_doc' = [proc_doc EXCEPT
                          ![p] = transform_data(v, [hour |-> h, minute |-> m])]
    /\ pc' = [pc EXCEPT ![p] = "find_one"]
    /\ UNCHANGED <<existing, ingest_vars, train_vars, dash_vars, aqi_vars>>

\* load_data: existing = collection.find_one({"timestamp_hour": ...})
LoadFindOne(p) ==
    /\ pc[p] = "find_one"
    /\ existing' = [existing EXCEPT
                       ![p] = find_one(features, "timestamp_hour",
                                       proc_doc[p].timestamp_hour)]
    /\ pc' = [pc EXCEPT ![p] = "if_existing"]
    /\ UNCHANGED <<proc_doc, ingest_vars, train_vars, dash_vars, aqi_vars>>

\* load_data: "if existing: ... return", else collection.insert_one(doc)
LoadInsert(p) ==
    /\ pc[p] = "if_existing"
    /\ features' = IF existing[p] # NoDoc THEN features
                   ELSE insert_one(features, proc_doc[p])
    /\ pc' = [pc EXCEPT ![p] = "done"]
    /\ UNCHANGED <<proc_doc, existing, pollution_data, ingest_runs, last_call,
                   first_loaded, last_upserted, rewrites,
                   train_vars, dash_vars, aqi_vars>>

---------------------------------------------------------------------------
(***************************************************************************)
(* backfill_data.py                                                        *)
(***************************************************************************)

\* pd.date_range(start, periods=n, freq=interval) zipped with the pm2_5 array:
\* df.to_dict("records").
data_dict(start, pm25) ==
    [i \in 1..Len(pm25) |->
        [timestamp |-> [hour |-> start + (i - 1), minute |-> 0],
         pm2_5     |-> pm25[i]]]

\* The upload step of backfill_history: "if data_dict:" bulk upsert.
backfill_upload(coll, records) ==
    IF records # <<>> THEN bulk_write(coll, records) ELSE coll

RECURSIVE NoteUpserts(_, _)
NoteUpserts(hist, records) ==
    IF records = <<>> THEN hist
    ELSE NoteUpserts([hist EXCEPT ![Head(records).timestamp.hour] = Head(records)],
                     Tail(records))

\* The pm2_5 arrays the air-quality API may answer with for a start hour.
Pm25Arrays(start) ==
    UNION {[1..n -> Pm25Values] :
              n \in {k \in 0..MaxBatch : start + k - 1 <= MaxHour}}

\* One run of backfill_history.
BackfillRun ==
    /\ ingest_runs < MaxIngestRuns
    /\ \E start \in Hours : \E pm25 \in Pm25Arrays(start) :
        LET records == data_dict(start, pm25) IN
        /\ pollution_data' = backfill_upload(pollution_data, records)
        /\ last_call' = [op |-> "backfill", arg |-> records]
        /\ last_upserted' = NoteUpserts(last_upserted, records)
        /\ rewrites' =
              IF \E k \in 1..Len(records) :
                    /\ last_upserted[records[k].timestamp.hour] # NoDoc
                    /\ last_upserted[records[k].timestamp.hour] # records[k]
              THEN [rewrites EXCEPT !.pollution_data = TRUE]
              ELSE rewrites
    /\ ingest_runs' = ingest_runs + 1
    /\ UNCHANGED <<features, first_loaded>>
    /\ UNCHANGED <<train_vars, dash_vars, aqi_vars, race_vars>>

---------------------------------------------------------------------------
(***************************************************************************)
(* training_pipeline.py                                                    *)
(***************************************************************************)
MaxMae == 2
MaxTrainRuns == 2
MaxRows == 4

\* held-out mean absolute errors a candidate may score
MaeValues == 1..MaxMae

\* prepare_features: the columns of X
prepare_features_cols ==
    <<"pm2_5", "pm10", "no2", "temp", "humidity", "wind_speed", "hour">>

\* train_and_evaluate: the dict "models", in insertion order
models == <<"Linear Regression", "Random Forest", "Gradient Boosting">>

\* prepare_features: the target is the next row's pm2_5 and the last row,
\* which has none, is dropped: X has one row less than the dataframe.
\* (Rows with a missing measurement would be dropped as well; the documents
\* modelled here carry every measurement.)
prepare_features_rows(df) == IF Len(df) = 0 THEN 0 ELSE Len(df) - 1

\* Minutes since the first hour: the order of the timestamps.
TimeKey(ts) == 60 * ts.hour + ts.minute

\* df.sort_values("timestamp"): doc put into an ordered frame.
RECURSIVE InsertByTimestamp(_, _)
InsertByTimestamp(df, doc) ==
    IF df = <<>> THEN <<doc>>
    ELSE IF TimeKey(doc.timestamp) < TimeKey(Head(df).timestamp)
         THEN <<doc>> \o df
         ELSE <<Head(df)>> \o InsertByTimestamp(Tail(df), doc)

\* load_dataframe(db): every document of "features", ordered by timestamp,
\* with the index reset.
RECURSIVE load_dataframe(_)
load_dataframe(docs) ==
    IF docs = <<>> THEN <<>>
    ELSE InsertByTimestamp(load_dataframe(Tail(docs)), Head(docs))

\* prepare_features(df): row i of X keeps the frame's index i (0-based, the
\* rank of its timestamp) and takes the next row's pm2_5 as target; the
\* timestamp column itself is not among the features.
prepare_features(df) ==
    [i \in 1..prepare_features_rows(df) |->
        [index        |-> i - 1,
         pm2_5        |-> df[i].pm2_5,
         target_pm2_5 |-> df[i + 1].pm2_5]]

\* rng.permutation(n) of numpy's RandomState(42), the generator that
\* random_state=42 names: MT19937 seeded with 42, then the shuffle
\* "for i = n-1 .. 1: swap a[i], a[random_interval(i)]" applied to 0..n-1.
permutation_42(n) ==
    CASE n = 0 -> <<>>
      [] n = 1 -> <<0>>
      [] n = 2 -> <<1, 0>>
      [] n = 3 -> <<0, 1, 2>>
      [] n = 4 -> <<1, 3, 0, 2>>
      [] n = 5 -> <<1, 4, 2, 0, 3>>
      [] n = 6 -> <<0, 1, 5, 2, 4, 3>>
      [] n = 7 -> <<0, 1, 5, 2, 4, 3, 6>>
      [] n = 8 -> <<1, 5, 0, 7, 2, 4, 3, 6>>

\* train_test_split(X, y, test_size=0.2): n_test = ceil(0.2 * n) and the
\* rest is the train set; sklearn raises ValueError when that is empty.
n_test(n) == (n + 4) \div 5
train_test_split_raises(n) == n = 0 \/ n - n_test(n) = 0

\* train_test_split(X, y, test_size=0.2, random_state=42), shuffle=True by
\* default: the first n_test entries of the permutation index the test rows,
\* the remaining ones the train rows.
train_test_split(X) ==
    LET n    == Len(X)
        perm == permutation_42(n)
    IN  [X_train |-> [i \in 1..(n - n_test(n)) |-> X[perm[n_test(n) + i] + 1]],
         X_test  |-> [i \in 1..n_test(n) |-> X[perm[i] + 1]]]

\* best_mae = float("inf")
Infinity == [inf |-> TRUE, value |-> 0]
Finite(v) == [inf |-> FALSE, value |-> v]

\* "if mae <= best_mae:"
IsNewWinnerOrTie(mae, best_mae) == best_mae.inf \/ mae <= best_mae.value

\* "if mae < best_mae:"
IsNewWinner(mae, best_mae) == best_mae.inf \/ mae < best_mae.value

\* The estimator object a candidate is after model.fit(X_train, y_train).
FittedModel(name, now) ==
    [kind             |-> "fitted",
     model_name       |-> name,
     feature_names_in |-> prepare_features_cols,
     fitted_at        |-> now]

\* The loop "for name, model in models.items()" from candidate k on, with
\* the loop's variables in st.
RECURSIVE Tournament(_, _, _, _)
Tournament(k, mae, now, st) ==
    IF k > Len(models) THEN st
    ELSE Tournament(k + 1, mae, now,
            LET results == Append(st.results,
                               [model_name |-> models[k],
                                mae        |-> mae[k],
                                trained_at |-> now])
            IN  IF IsNewWinner(mae[k], st.best_mae)
                THEN [best_model_name |-> models[k],
                      best_mae        |-> Finite(mae[k]),
                      best_model_obj  |-> FittedModel(models[k], now),
                      results         |-> results]
                ELSE [st EXCEPT !.results = results])

TournamentStart ==
    [best_model_name |-> "None",
     best_mae        |-> Infinity,
     best_model_obj  |-> NoDoc,
     results         |-> <<>>]

\* registry_doc of train_and_evaluate
registry_doc(st, now) ==
    [experiment_date |-> now,
     winner          |-> st.best_model_name,
     winner_mae      |-> st.best_mae.value,
     candidates      |-> st.results]

\* What is left of aqi_model.pkl when open(..., "wb") has truncated it and
\* pickle.dump did not complete.
TruncatedFile == [truncated |-> TRUE]

\* Where a run may raise: in fit/predict of candidate k, in pickle.dump, in
\* registry_collection.insert_one, or nowhere.
Faults ==
    {[step |-> "fit", k |-> k] : k \in 1..Len(models)}
    \cup {[step |-> s, k |-> 0] : s \in {"none", "dump", "insert_one"}}

\* One run of training_pipeline.main.
TrainRun ==
    /\ clock < MaxTrainRuns
    /\ clock' = clock + 1
    /\ \E mae \in [1..Len(models) -> MaeValues], fault \in Faults :
        LET now == clock + 1
            n   == prepare_features_rows(features)
            st  == Tournament(1, mae, now, TournamentStart)
            X   == prepare_features(load_dataframe(features))
        IN
        IF features = <<>>
        THEN \* "No data found."
             /\ train_outcome' = "no_data"
             /\ UNCHANGED <<model_registry, aqi_model_pkl, X_train, X_test>>
        ELSE IF train_test_split_raises(n)
        THEN /\ train_outcome' = "raised"
             /\ UNCHANGED <<model_registry, aqi_model_pkl, X_train, X_test>>
        ELSE /\ X_train' = train_test_split(X).X_train
             /\ X_test' = train_test_split(X).X_test
             /\ IF fault.step = "fit"
                THEN /\ train_outcome' = "raised"
                     /\ UNCHANGED <<model_registry, aqi_model_pkl>>
                ELSE IF fault.step = "dump"
                THEN /\ train_outcome' = "raised"
                     /\ aqi_model_pkl' = TruncatedFile
                     /\ UNCHANGED model_registry
                ELSE IF fault.step = "insert_one"
                THEN /\ train_outcome' = "raised"
                     /\ aqi_model_pkl' = st.best_model_obj
                     /\ UNCHANGED model_registry
                ELSE /\ train_outcome' = "ok"
                     /\ aqi_model_pkl' = st.best_model_obj
                     /\ model_registry' =
                           insert_one(model_registry, registry_doc(st, now))
    /\ UNCHANGED <<ingest_vars, dash_vars, aqi_vars, race_vars>>

---------------------------------------------------------------------------
(***************************************************************************)
(* app/main.py                                                             *)
(***************************************************************************)
MaxWeather == 5

\* calculate_aqi(pm25), with pm25 in tenths of a microgram and the result an
\* exact fraction num/den: the slope (hi_out - lo_out)/(hi_in - lo_in) of a
\* segment is 49/23.3 = 490/233 per unit, i.e. 49/233 per tenth.
\* calculate_aqi with "<" for "<=" at the breakpoints
calculate_aqi_strict(p) ==
    IF p < 120 THEN [num |-> 50 * p, den |-> 120]
    ELSE IF p < 354 THEN [num |-> 49 * (p - 121) + 51 * 233, den |-> 233]
    ELSE IF p < 554 THEN [num |-> 49 * (p - 355) + 101 * 199, den |-> 199]
    ELSE IF p < 1504 THEN [num |-> 49 * (p - 555) + 151 * 949, den |-> 949]
    ELSE [num |-> 300, den |-> 1]

calculate_aqi(p) ==
    IF p <= 120 THEN [num |-> 50 * p, den |-> 120]
    ELSE IF p <= 354 THEN [num |-> 49 * (p - 121) + 51 * 233, den |-> 233]
    ELSE IF p <= 554 THEN [num |-> 49 * (p - 355) + 101 * 199, den |-> 199]
    ELSE IF p <= 1504 THEN [num |-> 49 * (p - 555) + 151 * 949, den |-> 949]
    ELSE [num |-> 300, den |-> 1]

\* A float of a dataframe column: a value, or NaN for a JSON null.
Float(v) == [nan |-> FALSE, value |-> v]
NaN == [nan |-> TRUE, value |-> 0]

\* tab_forecast: the columns selected into X_future
forecast_cols == <<"temp", "humidity", "wind_speed", "hour">>

\* Models a registry document may carry in "model_binary" besides the
\* trainer's estimators: a regressor fit on the dashboard's four weather
\* columns, and the stub whose prediction is its pm2_5_lag1 input plus one.
WeatherModel ==
    [kind             |-> "weather",
     model_name       |-> "Weather Regressor",
     feature_names_in |-> forecast_cols,
     fitted_at        |-> 0]
LagPlusOneModel ==
    [kind             |-> "lag_plus_one",
     model_name       |-> "Lag Plus One",
     feature_names_in |-> forecast_cols \o <<"pm2_5_lag1">>,
     fitted_at        |-> 0]
StoredModels == {WeatherModel, LagPlusOneModel}

\* A document of the shape load_model and check_live_performance read.
BinaryDoc(m) ==
    [timestamp    |-> 0,
     model_name   |-> m.model_name,
     model_binary |-> m,
     metrics      |-> [r2 |-> 0]]

\* An estimator rejects a row it cannot score: NaN in an input column.
RejectsRow(m, row) == row.temp.nan

\* The prediction of m for one row, in tenths.
PredictRow(m, row) ==
    CASE m.kind = "weather"      -> 10 * (row.temp.value + row.hour)
      [] m.kind = "lag_plus_one" -> row.pm2_5_lag1 + 10

\* model.predict(X) raises for the whole batch when the columns of X are not
\* the ones the estimator was fit on, or when a row is rejected.
predict_raises(m, cols, X) ==
    \/ cols # m.feature_names_in
    \/ \E i \in 1..Len(X) : RejectsRow(m, X[i])

\* model.predict(X): one prediction per row of X.
predict(m, X) == [i \in 1..Len(X) |-> PredictRow(m, X[i])]

\* find_one(sort=[("timestamp", -1)]): documents without the field sort as
\* null, below every value; which of several equal keys comes first is not
\* specified by the store.
SortKey(doc) == IF "timestamp" \in DOMAIN doc THEN doc.timestamp ELSE -1
find_one_latest(coll) ==
    {i \in 1..Len(coll) :
        \A j \in 1..Len(coll) : SortKey(coll[j]) <= SortKey(coll[i])}

\* The frames the weather API may deliver: n hourly rows from midnight, at
\* most one of them (row k) with a null temperature.
WeatherFrame(n, k) ==
    [i \in 1..n |->
        [temp       |-> IF i = k THEN NaN ELSE Float(20),
         humidity   |-> Float(50),
         wind_speed |-> Float(5),
         hour       |-> (i - 1) % 24]]
WeatherFrames == {WeatherFrame(n, k) : n \in 0..MaxWeather, k \in 0..MaxWeather}

\* The script from "model, model_name, metrics = load_model()" to the end
\* of tab_forecast, with the registry document find_one returned (or none)
\* and the frame get_weather_forecast returned (empty after an exception).
DashBody(doc, df) ==
    /\ dash_seen' = Len(model_registry)
    /\ IF doc # NoDoc /\ "model_binary" \notin DOMAIN doc
       THEN \* model_doc["model_binary"]: KeyError, the script stops here
            /\ dash_outcome' = "crashed"
            /\ dash_error' = "KeyError"
            /\ model' = NoDoc
            /\ model_name' = "None"
            /\ forecast_df' = <<>>
            /\ X_future_cols' = <<>>
            /\ Predicted_PM25' = <<>>
            /\ Predicted_AQI' = <<>>
       ELSE /\ model' = (IF doc = NoDoc THEN NoDoc ELSE doc.model_binary)
            /\ model_name' = (IF doc = NoDoc THEN "None" ELSE doc.model_name)
            /\ forecast_df' = df
            /\ IF df # <<>> /\ doc # NoDoc
               THEN /\ X_future_cols' = forecast_cols
                    /\ IF predict_raises(doc.model_binary, forecast_cols, df)
                       THEN /\ dash_outcome' = "crashed"
                            /\ dash_error' = "ValueError"
                            /\ Predicted_PM25' = <<>>
                            /\ Predicted_AQI' = <<>>
                       ELSE /\ dash_outcome' = "rendered"
                            /\ dash_error' = "None"
                            /\ Predicted_PM25' = predict(doc.model_binary, df)
                            /\ Predicted_AQI' =
                                  [i \in 1..Len(df) |->
                                     calculate_aqi(predict(doc.model_binary, df)[i])]
               ELSE \* "Waiting for data or model..."
                    /\ dash_outcome' = "unavailable"
                    /\ dash_error' = "None"
                    /\ X_future_cols' = <<>>
                    /\ Predicted_PM25' = <<>>
                    /\ Predicted_AQI' = <<>>

\* One run of the dashboard script whose weather request is answered.
DashRun ==
    /\ \E df \in WeatherFrames :
          \/ /\ model_registry = <<>>
             /\ DashBody(NoDoc, df)
          \/ \E i \in find_one_latest(model_registry) :
                DashBody(model_registry[i], df)
    /\ UNCHANGED <<ingest_vars, train_vars, aqi_vars, race_vars>>

\* One run whose weather request raises: get_weather_forecast reports the
\* error and returns an empty frame.
DashRunWeatherFails ==
    /\ \/ /\ model_registry = <<>>
          /\ DashBody(NoDoc, <<>>)
       \/ \E i \in find_one_latest(model_registry) :
             DashBody(model_registry[i], <<>>)
    /\ UNCHANGED <<ingest_vars, train_vars, aqi_vars, race_vars>>

\* A call of calculate_aqi on its own.
AqiCall ==
    /\ aqi_ret = NoDoc
    /\ aqi_ret' = calculate_aqi(pm25_arg)
    /\ UNCHANGED <<pm25_arg, ingest_vars, train_vars, dash_vars, race_vars>>

---------------------------------------------------------------------------
(***************************************************************************)
(* Initial states and specifications.                                      *)
(***************************************************************************)
MaxPm25Tenths == 1600

IngestInit ==
    /\ features = <<>>
    /\ pollution_data = <<>>
    /\ ingest_runs = 0
    /\ last_call = [op |-> "none", arg |-> NoDoc]
    /\ first_loaded = [h \in Hours |-> NoDoc]
    /\ last_upserted = [h \in Hours |-> NoDoc]
    /\ rewrites = [features |-> FALSE, pollution_data |-> FALSE]

\* The store after the collector ran once in each of n successive hours.
CollectedInit(n) ==
    LET doc(h) == transform_data(1, [hour |-> h, minute |-> 0]) IN
    /\ features = [i \in 1..n |-> doc(i - 1)]
    /\ pollution_data = <<>>
    /\ ingest_runs = n
    /\ last_call = IF n = 0 THEN [op |-> "none", arg |-> NoDoc]
                   ELSE [op |-> "load_data", arg |-> doc(n - 1)]
    /\ first_loaded = [h \in Hours |-> IF h < n THEN doc(h) ELSE NoDoc]
    /\ last_upserted = [h \in Hours |-> NoDoc]
    /\ rewrites = [features |-> FALSE, pollution_data |-> FALSE]

TrainInit ==
    /\ aqi_model_pkl = NoDoc
    /\ X_train = <<>>
    /\ X_test = <<>>
    /\ clock = 0
    /\ train_outcome = "none"

DashInit ==
    /\ dash_outcome = "idle"
    /\ dash_error = "None"
    /\ dash_seen = 0
    /\ model = NoDoc
    /\ model_name = "None"
    /\ forecast_df = <<>>
    /\ X_future_cols = <<>>
    /\ Predicted_PM25 = <<>>
    /\ Predicted_AQI = <<>>

AqiIdle ==
    /\ pm25_arg = 0
    /\ aqi_ret = NoDoc

\* No concurrent collector processes.
RaceIdle ==
    /\ pc = [p \in Procs |-> "done"]
    /\ proc_doc = [p \in Procs |-> NoDoc]
    /\ existing = [p \in Procs |-> NoDoc]

\* Two collector processes started, none past its first statement.
RaceInit ==
    /\ pc = [p \in Procs |-> "main"]
    /\ proc_doc = [p \in Procs |-> NoDoc]
    /\ existing = [p \in Procs |-> NoDoc]

\* The ingestion scripts against an empty store.
IngestNext == FeatureRun \/ FeatureRunFetchFails \/ BackfillRun
InitIngest ==
    /\ IngestInit /\ model_registry = <<>> /\ TrainInit /\ DashInit
    /\ AqiIdle /\ RaceIdle
SpecIngest == InitIngest /\ [][IngestNext]_vars

\* The trainer over what the collector has stored.
TrainNext == TrainRun
InitTrain ==
    /\ \E n \in 0..MaxRows : CollectedInit(n)
    /\ model_registry = <<>> /\ TrainInit /\ DashInit /\ AqiIdle /\ RaceIdle
SpecTrain == InitTrain /\ [][TrainNext]_vars

\* Trainer and dashboard over a registry that starts empty or holds one
\* document of the shape the dashboard reads.
Init ==
    /\ \E n \in 0..MaxRows : CollectedInit(n)
    /\ model_registry \in {<<>>} \cup {<<BinaryDoc(m)>> : m \in StoredModels}
    /\ TrainInit /\ DashInit /\ AqiIdle /\ RaceIdle
Next == TrainRun \/ DashRun \/ DashRunWeatherFails
Spec == Init /\ [][Next]_vars

\* calculate_aqi over every concentration up to MaxPm25Tenths.
AqiInit ==
    /\ pm25_arg \in 0..MaxPm25Tenths
    /\ aqi_ret = NoDoc
AqiNext == AqiCall
InitAqi ==
    /\ IngestInit /\ model_registry = <<>> /\ TrainInit /\ DashInit
    /\ AqiInit /\ RaceIdle
SpecAqi == InitAqi /\ [][AqiNext]_vars

\* Two collector processes at once, over a store that holds the documents
\* of up to MaxHour earlier hours.
RaceNext == \E p \in Procs : LoadFetch(p) \/ LoadFindOne(p) \/ LoadInsert(p)
InitRace ==
    /\ \E n \in 0..MaxHour : CollectedInit(n)
    /\ model_registry = <<>> /\ TrainInit /\ DashInit /\ AqiIdle /\ RaceInit
SpecRace == InitRace /\ [][RaceNext]_vars

---------------------------------------------------------------------------
(***************************************************************************)
(* Ingestion: what the two collections hold.                               *)
(***************************************************************************)

OnTheHour(h) == [hour |-> h, minute |-> 0]

FeatureDocs(h) == Matching(features, "timestamp_hour", OnTheHour(h))
PollutionDocs(h) == Matching(pollution_data, "timestamp", OnTheHour(h))

C2_StoredValues ==
    \A h \in Hours :
       /\ first_loaded[h] # NoDoc =>
             /\ FeatureDocs(h) # {}
             /\ \A i \in FeatureDocs(h) : features[i] = first_loaded[h]
       /\ last_upserted[h] # NoDoc =>
             /\ PollutionDocs(h) # {}
             /\ \A i \in PollutionDocs(h) : pollution_data[i] = last_upserted[h]

\* A run that repeats the previous call changes neither collection.
C2_RepeatIsNoOp ==
    (ingest_runs' # ingest_runs /\ last_call' = last_call) =>
        (features' = features /\ pollution_data' = pollution_data)

C3_OneDocumentPerHour ==
    \A h \in Hours :
       /\ Cardinality(FeatureDocs(h)) = (IF first_loaded[h] = NoDoc THEN 0 ELSE 1)
       /\ Cardinality(PollutionDocs(h)) = (IF last_upserted[h] = NoDoc THEN 0 ELSE 1)

\* C3 witness: on each path an hour key was written again, and the last
\* run was a bulk upsert over several hours.
C3_Witness ==
    /\ rewrites.features
    /\ rewrites.pollution_data
    /\ last_call.op = "backfill"
    /\ Len(last_call.arg) > 1

---------------------------------------------------------------------------
(***************************************************************************)
(* Forecast, registry and tournament: what the runs leave behind.          *)
(***************************************************************************)

NoRowRejected(df) == \A i \in 1..Len(df) : ~df[i].temp.nan

\* C1 as stated: with the stub model that returns its lag input plus one, a
\* 3-point weather sequence and a seed lag of 10 (100 tenths), a finished
\* forecast run holds exactly the predictions 11, 12, 13.
C1_RecursiveForecast ==
    (/\ dash_outcome # "idle"
     /\ model = LagPlusOneModel
     /\ Len(forecast_df) = 3
     /\ NoRowRejected(forecast_df))
    => Predicted_PM25 = <<110, 120, 130>>

TrainerWrote(doc) == "winner" \in DOMAIN doc

\* C4 as stated: a dashboard run that follows a successful training run has
\* loaded that run's winner: load_model returned the model the run persisted
\* and the run's winner name.
C4_LatestWinnerIsLoaded ==
    (/\ train_outcome = "ok"
     /\ dash_outcome # "idle"
     /\ dash_seen = Len(model_registry))
    => /\ dash_outcome # "crashed"
       /\ model = aqi_model_pkl
       /\ model_name = model_registry[Len(model_registry)].winner

\* C5 as stated: a training run that raises leaves the artifacts of the prior
\* champion, the registry and the file aqi_model.pkl, as they were.
C5_FailedRunKeepsChampion ==
    [][(/\ clock' # clock
        /\ train_outcome' = "raised"
        /\ model_registry # <<>>
        /\ aqi_model_pkl # NoDoc)
       => (model_registry' = model_registry /\ aqi_model_pkl' = aqi_model_pkl)]_vars

\* C6: every tournament the registry records was won by the candidate with
\* the minimum held-out MAE and, among candidates sharing the minimum, by the
\* first in the declaration order; the persisted file holds that winner.
C6_WinnerIsFirstMinimum ==
    /\ \A d \in 1..Len(model_registry) :
          TrainerWrote(model_registry[d]) =>
             LET c == model_registry[d].candidates IN
             /\ Len(c) = Len(models)
             /\ \A k \in 1..Len(c) : c[k].model_name = models[k]
             /\ \E i \in 1..Len(c) :
                   /\ model_registry[d].winner = models[i]
                   /\ model_registry[d].winner_mae = c[i].mae
                   /\ \A j \in 1..Len(c) :
                         /\ c[i].mae <= c[j].mae
                         /\ j < i => c[i].mae < c[j].mae
    /\ train_outcome = "ok" =>
          aqi_model_pkl.model_name = model_registry[Len(model_registry)].winner

\* C6 witness: a tournament in which the second and third candidate share the
\* minimum and the first scores worse.
C6_Witness ==
    /\ train_outcome = "ok"
    /\ LET c == model_registry[Len(model_registry)].candidates IN
          c[1].mae > c[2].mae /\ c[2].mae = c[3].mae

\* C7 as stated: when the model rejects weather point k, the run that ended
\* in the prediction error holds the k-1 points before it.
C7_PartialForecast ==
    \A k \in 1..Len(forecast_df) :
       (/\ dash_outcome = "crashed"
        /\ dash_error = "ValueError"
        /\ model = WeatherModel
        /\ forecast_df[k].temp.nan)
       => Len(Predicted_PM25) = k - 1

\* C8 as stated: the columns the dashboard passes to predict are the feature
\* list the persisted model was fit on by the trainer.
C8_SameColumns ==
    (/\ X_future_cols # <<>>
     /\ aqi_model_pkl # NoDoc
     /\ aqi_model_pkl # TruncatedFile)
    => X_future_cols = aqi_model_pkl.feature_names_in

\* C9 as stated: over a registry that is empty or holds only documents the
\* trainer wrote, no dashboard run ends in an unhandled exception.
C9_NeverCrashes ==
    (\A i \in 1..Len(model_registry) : TrainerWrote(model_registry[i]))
    => dash_outcome # "crashed"

\* C10: calculate_aqi maps 12.0 to 50, 12.1 to 51, 35.4 to 100, 55.4 to 150
\* and 150.5 to 300, exactly.
C10_AqiBoundaries ==
    aqi_ret # NoDoc =>
       /\ pm25_arg = 120 => aqi_ret.num = 50 * aqi_ret.den
       /\ pm25_arg = 121 => aqi_ret.num = 51 * aqi_ret.den
       /\ pm25_arg = 354 => aqi_ret.num = 100 * aqi_ret.den
       /\ pm25_arg = 554 => aqi_ret.num = 150 * aqi_ret.den
       /\ pm25_arg = 1505 => aqi_ret.num = 300 * aqi_ret.den

\* C10 witness: the call for 35.4 has returned.
C10_Witness == aqi_ret # NoDoc /\ pm25_arg = 354

---------------------------------------------------------------------------
(***************************************************************************)
(* The trainer's split.                                                    *)
(***************************************************************************)

\* The timestamp of a row of X: that of the frame row with its index.
RowTime(row) == TimeKey(load_dataframe(features)[row.index + 1].timestamp)

\* C11 as stated: the test rows of a split are the last 20% of the rows by
\* time, so every train row is earlier than every test row.
C11_ChronologicalSplit ==
    X_test # <<>> =>
       LET n == Len(X_train) + Len(X_test) IN
       /\ {X_test[j].index : j \in 1..Len(X_test)} = (n - n_test(n))..(n - 1)
       /\ \A i \in 1..Len(X_train), j \in 1..Len(X_test) :
             RowTime(X_train[i]) < RowTime(X_test[j])

---------------------------------------------------------------------------
(***************************************************************************)
(* Two collectors at once.                                                 *)
(***************************************************************************)

\* C12 as stated: whatever the interleaving of the two processes' find_one
\* and insert_one calls, "features" holds at most one document per hour.
C12_AtMostOnePerHour ==
    \A h \in Hours : Cardinality(FeatureDocs(h)) <= 1

=============================================================================
